---- MODULE Spec2Model ----
(***************************************************************************)
(* Model of src/differ.py: the table descriptors (DbTableInfo), the        *)
(* metadata catalogue (DatabaseProxy) and the comparison run               *)
(* (data_compare) of a source and a target database; of the path helpers   *)
(* of src/utility.py; and of Config.load of src/config.py.                 *)
(*                                                                         *)
(* Spec is a run of data_compare.  SpecCompare compares two descriptors,   *)
(* SpecProxy uses one DatabaseProxy while the database changes,            *)
(* SpecUtility calls dotget and dotset, SpecConfig loads a configuration   *)
(* with an environment.  Each specification holds the variables of the     *)
(* others at their idle values.                                            *)
(*                                                                         *)
(* Python values are modelled as follows.  None in an Optional position    *)
(* is the empty sequence <<>> and a present value v is <<v>>; a tuple of   *)
(* column names is a sequence of strings, and the primary_keys value None  *)
(* is <<>> (the code only builds None or a non-empty tuple there, and only *)
(* tests it for truthiness and equality).                                  *)
(***************************************************************************)
EXTENDS Integers, Sequences, FiniteSets, TLC

\* ---------------------------------------------------------------- bounds
\* number of tables of schema "s1" that a database may hold
MaxTables == 2
\* record counts answered by a database range over 0..MaxCount
MaxCount == 1
\* the row-diff engine yields at most MaxDiff differing rows
MaxDiff == 1

SchemaNames == {"s1", "s2"}

\* (schema, table) names a database may hold; tables are numbered so that
\* "order by schema_name, table_name" is the numeric order
TableKeys == {<<"s1", t>> : t \in 1..MaxTables} \cup {<<"s2", 1>>}

\* ------------------------------------------------ rows of the metadata query
\* one result row of SQL_COLUMNS_QUERY without its two name columns:
\* string_agg(...) of the key columns (NULL, here <<>>, when there is no
\* primary key) and of the other columns, each in ordinal order
RowNoPk == [pk_keys |-> <<>>, columns |-> <<"id", "a">>]
RowA    == [pk_keys |-> <<"id">>, columns |-> <<"a">>]
RowB    == [pk_keys |-> <<"id">>, columns |-> <<"a", "date_updated">>]
RowK    == [pk_keys |-> <<"key">>, columns |-> <<"a">>]

\* what the source / the target may hold for one table name: nothing or a row
SourceRows == {<<>>, <<RowNoPk>>, <<RowA>>}
TargetRows == {<<>>, <<RowA>>, <<RowB>>, <<RowK>>}

\* schema "s2" serves the schema-level cases (missing, extra, skipped): its
\* one table is absent or keyless in the source, absent or RowA in the target
SourceDbs == {db \in [TableKeys -> SourceRows] :
                 db[<<"s2", 1>>] \in {<<>>, <<RowNoPk>>}}
TargetDbs == {db \in [TableKeys -> TargetRows] :
                 db[<<"s2", 1>>] \in {<<>>, <<RowA>>}}

\* the run reads the shape of a target table only next to a keyed source
\* table of the same name: elsewhere the target table is absent or RowA
Paired(sdb, tdb) ==
    \A k \in TableKeys : sdb[k] # <<RowA>> => tdb[k] \in {<<>>, <<RowA>>}

\* ------------------------------------------------------------ DbTableInfo
DbTableInfo(schema_name, table_name, primary_keys, columns) ==
    [schema_name |-> schema_name, table_name |-> table_name,
     primary_keys |-> primary_keys, columns |-> columns]

InTuple(x, tup) == \E i \in DOMAIN tup : tup[i] = x

\* DbTableInfo.timestamp: Optional[str]
timestamp(self) ==
    IF InTuple("date_updated", self.columns) THEN <<"date_updated">> ELSE <<>>

\* DbTableInfo.__eq__ returns a Python object: False for a non-descriptor,
\* otherwise the one-element tuple built by the trailing comma of its
\* return expression.  is_tuple tells the two apart.
DbTableInfo_eq(self, value) ==
    IF value = <<>>
    THEN [is_tuple |-> FALSE, bool |-> FALSE, items |-> <<>>]
    ELSE [is_tuple |-> TRUE, bool |-> FALSE,
          items |-> << /\ self.schema_name = value[1].schema_name
                       /\ self.table_name = value[1].table_name
                       /\ self.primary_keys = value[1].primary_keys
                       /\ self.columns = value[1].columns
                       /\ timestamp(self) = timestamp(value[1]) >>]

\* truth value of a Python object: a tuple is true iff it is not empty
Truthy(obj) == IF obj.is_tuple THEN Len(obj.items) > 0 ELSE obj.bool

\* source_table != target_table: the class defines no __ne__, so Python
\* answers with the negated truth value of __eq__'s result
DbTableInfo_ne(self, value) == ~Truthy(DbTableInfo_eq(self, value))

\* ---------------------------------------------------------- DatabaseProxy
\* DatabaseProxy._tables_infos: the rows the metadata query returns for a
\* database holding db (a function from TableKeys to an optional row)
tables_infos(db) ==
    {<<k[1], k[2], db[k][1].pk_keys, db[k][1].columns>> :
        k \in {kk \in TableKeys : db[kk] # <<>>}}

\* DatabaseProxy.schemas: schema name -> table name -> DbTableInfo
schemas_of(infos) ==
    [schema_name \in {x[1] : x \in infos} |->
        [table_name \in {x[2] : x \in {y \in infos : y[1] = schema_name}} |->
            LET row == CHOOSE x \in infos :
                          x[1] = schema_name /\ x[2] = table_name
            IN  DbTableInfo(schema_name, table_name, row[3], row[4])]]

\* ------------------------------------------------------------- src/utility.py
\* Python objects: None, int, str (as a value) and dict.  A str that is
\* taken apart (a path, a key, the name of an environment variable) is the
\* sequence of its characters, so "a.b" is <<"a", ".", "b">> and "" is <<>>;
\* the items of a dict are a function from such keys to objects.
PyNone == [type |-> "NoneType", int |-> 0, str |-> "", items |-> <<>>]
PyInt(n) == [type |-> "int", int |-> n, str |-> "", items |-> <<>>]
PyStr(s) == [type |-> "str", int |-> 0, str |-> s, items |-> <<>>]
PyDict(f) == [type |-> "dict", int |-> 0, str |-> "", items |-> f]

\* str.replace(old, new) for a one-character old
RECURSIVE replace(_, _, _)
replace(s, old, new) ==
    IF s = <<>> THEN <<>>
    ELSE (IF Head(s) = old THEN new ELSE <<Head(s)>>)
             \o replace(Tail(s), old, new)

\* str.split(sep): the pieces between the separators, empty ones included
RECURSIVE split(_, _)
split(s, sep) ==
    IF \A i \in DOMAIN s : s[i] # sep THEN <<s>>
    ELSE LET i == CHOOSE j \in DOMAIN s :
                      s[j] = sep /\ \A m \in 1..(j - 1) : s[m] # sep
         IN  <<SubSeq(s, 1, i - 1)>> \o split(SubSeq(s, i + 1, Len(s)), sep)

\* the loop of dotexpand over the comma-separated pieces
RECURSIVE expand(_)
expand(ps) ==
    IF ps = <<>> THEN <<>>
    ELSE LET p == Head(ps)
         IN  (IF p = <<>> THEN <<>>
              ELSE IF InTuple(":", p)
                   THEN <<replace(p, ":", <<".">>), replace(p, ":", <<"_">>)>>
                   ELSE <<p>>) \o expand(Tail(ps))

dotexpand(path) == expand(split(replace(path, " ", <<>>), ","))

\* d.get(attr)
get(d, attr) == IF attr \in DOMAIN d.items THEN d.items[attr] ELSE PyNone

\* the inner loop of dotget: follow attrs from d, None as soon as a step
\* finds no dict or no value
RECURSIVE walk(_, _)
walk(d, attrs) ==
    IF attrs = <<>> THEN d
    ELSE LET n == IF d.type = "dict" THEN get(d, Head(attrs)) ELSE PyNone
         IN  IF n.type = "NoneType" THEN PyNone ELSE walk(n, Tail(attrs))

\* the outer loop of dotget: the first expanded key that leads to a value
RECURSIVE first_found(_, _, _)
first_found(data, keys, default) ==
    IF keys = <<>> THEN default
    ELSE LET d == walk(data, split(Head(keys), "."))
         IN  IF d.type # "NoneType" THEN d
             ELSE first_found(data, Tail(keys), default)

dotget(data, path, default) == first_found(data, dotexpand(path), default)

\* the body of dotset below d: setdefault along attrs but the last, then
\* the item assignment; exc names the exception a non-dict on the way raises
RECURSIVE set_path(_, _, _)
set_path(d, attrs, value) ==
    IF Len(attrs) = 1
    THEN IF d.type = "dict"
         THEN [exc |-> "none", obj |-> PyDict((attrs[1] :> value) @@ d.items)]
         ELSE [exc |-> "TypeError", obj |-> d]
    ELSE IF d.type # "dict"
         THEN [exc |-> "AttributeError", obj |-> d]
         ELSE LET child == IF Head(attrs) \in DOMAIN d.items
                           THEN d.items[Head(attrs)] ELSE PyDict(<<>>)
                  r == set_path(child, Tail(attrs), value)
              IN  IF r.exc # "none" THEN [exc |-> r.exc, obj |-> d]
                  ELSE [exc |-> "none",
                        obj |-> PyDict((Head(attrs) :> r.obj) @@ d.items)]

dotset(data, path, value) ==
    set_path(data, split(replace(path, "_", <<".">>), "."), value)

\* ------------------------------------------------------------- src/config.py
\* str.lower and str.upper on the letters that occur in the model
lower_char(c) ==
    CASE c = "P" -> "p" [] c = "Q" -> "q" [] c = "X" -> "x" [] c = "Y" -> "y"
      [] OTHER -> c
upper_char(c) ==
    CASE c = "p" -> "P" [] c = "q" -> "Q" [] c = "x" -> "X" [] c = "y" -> "Y"
      [] OTHER -> c

RECURSIVE lower(_)
lower(s) == IF s = <<>> THEN <<>> ELSE <<lower_char(Head(s))>> \o lower(Tail(s))

RECURSIVE upper(_)
upper(s) == IF s = <<>> THEN <<>> ELSE <<upper_char(Head(s))>> \o upper(Tail(s))

\* a test that every name passes
startswith_any(s, prefix) == TRUE

\* str.startswith(prefix)
startswith(s, prefix) ==
    Len(prefix) <= Len(s) /\ SubSeq(s, 1, Len(prefix)) = prefix

\* str.strip(): without the blanks at both ends
RECURSIVE strip(_)
strip(s) ==
    IF s = <<>> THEN <<>>
    ELSE IF Head(s) = " " THEN strip(Tail(s))
    ELSE IF s[Len(s)] = " " THEN strip(SubSeq(s, 1, Len(s) - 1))
    ELSE s

\* (prefix or ""): prefix is <<>> for None, else <<s>>
or_empty(prefix) == IF prefix = <<>> \/ prefix[1] = <<>> THEN <<>> ELSE prefix[1]

\* key[len(prefix):].lower().replace("_", ".").replace(":", ".")
dotpath(key, prefix) ==
    replace(replace(lower(SubSeq(key, Len(prefix) + 1, Len(key))),
                    "_", <<".">>), ":", <<".">>)

\* ------------------------------------------------------------------ state
VARIABLES
    source_db,      \* what the source database holds: TableKeys -> optional row
    target_db,      \* what the target database holds
    schemas,        \* parameter schemas: the allow-list ({} when None or empty)
    break_on_diff,  \* parameter break_on_diff
    progress,       \* parameter progress
    output_file,    \* parameter output_file: TRUE when a path is given
    source_cache,   \* source.schemas once computed (cached_property), else <<>>
    target_cache,   \* target.schemas once computed, else <<>>
    pc,             \* position of the run inside data_compare
    is_same,        \* local is_same
    result,         \* <<v>> once data_compare has returned v
    error,          \* class of the exception that left data_compare, else "none"
    todo_schemas,   \* schemas the outer loop has not yet yielded
    schema_name,    \* loop variable of the outer loop ("" before it)
    todo_tables,    \* table names the inner loop has not yet yielded
    table_name,     \* loop variable of the inner loop (0 before it)
    record_count,   \* local record_count (-1 before it is assigned)
    target_count,   \* what target.record_count(...) last answered (-1 before)
    engine_exc,     \* what the last list(diff_res) raised ("none": it returned)
    compare_result, \* local compare_result
    failed_query,   \* the query that failed ("none" while none has)
    hist,           \* per table: what the run did to it and how it ended
    schema_events,  \* per schema: what the run logged about it
    sink            \* content of the output file, a sequence of blocks

inputs == <<source_db, target_db, schemas, break_on_diff, progress, output_file>>
caches == <<source_cache, target_cache>>
loops  == <<todo_schemas, schema_name, todo_tables, table_name>>
locals == <<record_count, target_count, engine_exc, compare_result>>
run    == <<inputs, caches, pc, is_same, result, error, loops, locals,
            failed_query, hist, schema_events, sink>>

\* state of the comparison of two descriptors (DbTableInfo.__eq__)
VARIABLES
    lhs,            \* left operand: <<d>> for a descriptor d, <<>> while unused
    rhs,            \* right operand: <<d>>, or <<>> for None
    cmp             \* <<[eq, ne]>>: what lhs == rhs and lhs != rhs gave,
                    \* <<>> before the comparison

compared == <<lhs, rhs, cmp>>

\* state of one DatabaseProxy used on a database that other sessions change
VARIABLES
    live_db,        \* what the database holds now: TableKeys -> optional row
    live_counts,    \* the number of rows each table holds now
    proxy_pc,       \* "open"; "raised" once a query failed; "idle": no proxy
    proxy_cache,    \* the cached schemas map as <<m>>, <<>> before it is set
    proxy_queries,  \* queries executed: [metadata |-> n, count |-> n]
    proxy_trace     \* calls made: how many of each kind, the maps that
                    \* accesses to schemas returned, and the last call

proxied == <<live_db, live_counts, proxy_pc, proxy_cache, proxy_queries,
             proxy_trace>>

\* state of a call of the path helpers of utility.py, or of Config.load
VARIABLES
    data,           \* the dict the helper is called on; the Config under load
    before,         \* data as it was before dotset; the mapping as loaded
    path,           \* argument path, a str
    value,          \* argument value
    ret,            \* <<v>> once the call has returned v, else <<>>
    raised,         \* class of the exception that left the call, else "none"
    util_pc,        \* position of the call ("idle": no call)
    environ,        \* os.environ: a sequence of [key, value], keys distinct
    env_prefix,     \* argument env_prefix: <<>> for None, else <<s>>
    env_i           \* position of the loop of load_environment in environ

configured == <<data, before, path, value, ret, raised, util_pc, environ,
                env_prefix, env_i>>

\* what a run of data_compare leaves alone
others == <<compared, proxied, configured>>

vars   == <<run, others>>

NoHist == [visits |-> 0, lookup |-> 0, count_src |-> 0, count_tgt |-> 0,
           diff |-> 0, report |-> 0, outcome |-> "none"]

\* the table the inner loop is at
Cur == <<schema_name, table_name>>

\* tables.items() yields the tables of a schema in the order of the rows of
\* the metadata query, which is "order by schema_name, table_name"
RECURSIVE Ascending(_)
Ascending(S) ==
    IF S = {} THEN <<>>
    ELSE LET m == CHOOSE x \in S : \A y \in S : x <= y
         IN  <<m>> \o Ascending(S \ {m})

\* the rows the row-diff engine may yield for one table: (sign, key) pairs
DiffRows == {<<"-", 1>>}
DiffResults == UNION {[1..n -> DiffRows] : n \in 0..MaxDiff}

\* exception classes list(diff_res) may raise
EngineErrors == {"ValueError", "RuntimeError"}

\* data_diff.format_diff(compare_result, key_columns=..., extra_columns=...)
format_diff(rows, key_columns, extra_columns) ==
    [key_columns |-> key_columns, extra_columns |-> extra_columns, rows |-> rows]

\* what the output file holds before the run: a block of an earlier run
PriorBlock == format_diff(<<>>, <<>>, <<>>)

\* no descriptors under comparison
ComparedIdle == lhs = <<>> /\ rhs = <<>> /\ cmp = <<>>

NoCall == [op |-> "none", arg |-> <<>>, ret |-> <<>>]

\* no proxy in use
ProxiedIdle ==
    /\ live_db = <<>>
    /\ live_counts = <<>>
    /\ proxy_pc = "idle"
    /\ proxy_cache = <<>>
    /\ proxy_queries = [metadata |-> 0, count |-> 0]
    /\ proxy_trace = [accesses |-> 0, counts |-> 0, maps |-> {}, last |-> NoCall]

\* no helper called, no configuration under load
ConfiguredIdle ==
    /\ data = <<>>
    /\ before = <<>>
    /\ path = <<>>
    /\ value = <<>>
    /\ ret = <<>>
    /\ raised = "none"
    /\ util_pc = "idle"
    /\ environ = <<>>
    /\ env_prefix = <<>>
    /\ env_i = 0

OthersIdle == ComparedIdle /\ ProxiedIdle /\ ConfiguredIdle

Init ==
    /\ OthersIdle
    /\ source_db \in SourceDbs
    /\ target_db \in TargetDbs
    /\ Paired(source_db, target_db)
    /\ schemas \in {{}, {"s2"}}
    /\ break_on_diff \in BOOLEAN
    /\ progress \in BOOLEAN
    /\ output_file \in BOOLEAN
    /\ source_cache = <<>>
    /\ target_cache = <<>>
    /\ pc = "start"
    /\ is_same = TRUE
    /\ result = <<>>
    /\ error = "none"
    /\ todo_schemas = {}
    /\ schema_name = ""
    /\ todo_tables = <<>>
    /\ table_name = 0
    /\ record_count = -1
    /\ target_count = -1
    /\ engine_exc = "none"
    /\ compare_result = <<>>
    /\ failed_query = "none"
    /\ hist = [k \in TableKeys |-> NoHist]
    /\ schema_events = [s \in SchemaNames |-> {}]
    /\ sink = <<PriorBlock>>

\* the query named q fails: its exception leaves the method of the proxy
QueryFails(q) == failed_query' = q

\* the exception caught and dropped: the run goes on with the next schema
Raise_swallowed(e) == pc' = "schema_loop" /\ UNCHANGED <<result, error>>

\* an exception of class e leaves data_compare
Raise(e) == pc' = "raised" /\ error' = e /\ UNCHANGED result

\* return v
Return(v) == pc' = "done" /\ result' = <<v>> /\ UNCHANGED error

Goto(label) == pc' = label /\ UNCHANGED <<result, error>>

\* Differ returning False whether or not break_on_diff is set
Differ_always_return(label) ==
    /\ is_same' = FALSE
    /\ Return(FALSE)

\* Differ without its first statement
Differ_unmarked(label) ==
    /\ UNCHANGED is_same
    /\ IF break_on_diff THEN Return(FALSE) ELSE Goto(label)

\* a disqualifying branch: is_same = False, then return False under
\* break_on_diff, else go on at label
Differ(label) ==
    /\ is_same' = FALSE
    /\ IF break_on_diff THEN Return(FALSE) ELSE Goto(label)

SetOutcome(o) == hist' = [hist EXCEPT ![Cur].outcome = o]

\* is_same = True; first evaluation of source.schemas (the metadata query
\* of the source runs, and may fail), start of the outer loop
Start ==
    /\ pc = "start"
    /\ \/ /\ source_cache' = <<schemas_of(tables_infos(source_db))>>
          /\ todo_schemas' = DOMAIN source_cache'[1]
          /\ Goto("schema_loop")
          /\ UNCHANGED failed_query
       \/ /\ QueryFails("source_metadata")
          /\ Raise("QueryError")
          /\ UNCHANGED <<source_cache, todo_schemas>>
    /\ UNCHANGED <<others, inputs, target_cache, is_same, schema_name, todo_tables,
                   table_name, locals, hist, schema_events, sink>>

\* an allow-list test that lets every schema through
NotListed_never(s) == FALSE

\* if schemas and schema_name not in schemas
NotListed(s) == schemas # {} /\ s \notin schemas

\* the outer loop yields the next schema (a dict built from a set: any
\* order), and the allow-list is applied to it
NextSchema ==
    /\ pc = "schema_loop"
    /\ \E s \in todo_schemas :
        /\ todo_schemas' = todo_schemas \ {s}
        /\ schema_name' = s
        /\ IF NotListed(s)
           THEN /\ Goto("schema_loop")
                /\ schema_events' = [schema_events EXCEPT ![s] = @ \cup {"skipped"}]
           ELSE /\ Goto("extra_check")
                /\ schema_events' = [schema_events EXCEPT ![s] = @ \cup {"entered"}]
    /\ UNCHANGED <<others, failed_query, inputs, caches, is_same, todo_tables, table_name, locals,
                   hist, sink>>

\* the outer loop is exhausted: return is_same
ReturnVerdict ==
    /\ pc = "schema_loop"
    /\ todo_schemas = {}
    /\ Return(is_same)
    /\ UNCHANGED <<others, failed_query, inputs, caches, is_same, loops, locals, hist,
                   schema_events, sink>>

\* any(table_name not in source.schemas[schema_name]
\*     for table_name in target.schemas[schema_name]) and its branch
ExtraCheck ==
    /\ pc = "extra_check"
    /\ \/ /\ target_cache = <<>>
          /\ QueryFails("target_metadata")
          /\ Raise("QueryError")
          /\ UNCHANGED <<target_cache, is_same, schema_events>>
       \/ /\ target_cache' = <<schemas_of(tables_infos(target_db))>>
          /\ UNCHANGED failed_query
          /\ LET tgt == target_cache'[1]
                 src == source_cache[1]
             IN  IF schema_name \notin DOMAIN tgt
                 THEN /\ Raise("KeyError")
                      /\ UNCHANGED <<is_same, schema_events>>
                 ELSE IF \E t \in DOMAIN tgt[schema_name] :
                            t \notin DOMAIN src[schema_name]
                      THEN /\ Differ("missing_check")
                           /\ schema_events' = [schema_events EXCEPT
                                  ![schema_name] = @ \cup {"extra_tables"}]
                      ELSE /\ Goto("missing_check")
                           /\ UNCHANGED <<is_same, schema_events>>
    /\ UNCHANGED <<others, inputs, source_cache, loops, locals, hist, sink>>

\* if schema_name not in target.schemas: ..., else the inner loop starts
MissingCheck ==
    /\ pc = "missing_check"
    /\ IF schema_name \notin DOMAIN target_cache[1]
       THEN /\ Differ("schema_loop")
            /\ schema_events' = [schema_events EXCEPT
                   ![schema_name] = @ \cup {"missing_in_target"}]
            /\ UNCHANGED todo_tables
       ELSE /\ Goto("table_loop")
            /\ todo_tables' = Ascending(DOMAIN source_cache[1][schema_name])
            /\ UNCHANGED <<is_same, schema_events>>
    /\ UNCHANGED <<others, failed_query, inputs, caches, todo_schemas, schema_name, table_name,
                   locals, hist, sink>>

\* the inner loop yields the next table and pbar.set_description is called
\* on what progress_bar returned: a tqdm bar, or tables.items() itself when
\* progress is false, which has no such method
NextTable ==
    /\ pc = "table_loop"
    /\ todo_tables # <<>>
    /\ table_name' = Head(todo_tables)
    /\ todo_tables' = Tail(todo_tables)
    /\ hist' = [hist EXCEPT ![<<schema_name, Head(todo_tables)>>].visits = @ + 1]
    /\ IF progress THEN Goto("pk_check") ELSE Raise("AttributeError")
    /\ UNCHANGED <<others, failed_query, inputs, caches, is_same, todo_schemas, schema_name, locals,
                   schema_events, sink>>

\* the inner loop is exhausted: back to the outer loop
EndTables ==
    /\ pc = "table_loop"
    /\ todo_tables = <<>>
    /\ Goto("schema_loop")
    /\ UNCHANGED <<others, failed_query, inputs, caches, is_same, loops, locals, hist,
                   schema_events, sink>>

source_table == source_cache[1][schema_name][table_name]

\* the key test taken as always passed
HasPrimaryKey_always(info) == TRUE

\* if not source_table.primary_keys: continue
HasPrimaryKey(info) == info.primary_keys # <<>>

PkCheck ==
    /\ pc = "pk_check"
    /\ IF HasPrimaryKey(source_table)
       THEN Goto("shape_check") /\ UNCHANGED hist
       ELSE Goto("table_loop") /\ SetOutcome("no_primary_key_skipped")
    /\ UNCHANGED <<others, failed_query, inputs, caches, is_same, loops, locals, schema_events, sink>>

\* dict.get: Optional[DbTableInfo]
Get(tables, name) == IF name \in DOMAIN tables THEN <<tables[name]>> ELSE <<>>

\* target_table = target.schemas[schema_name].get(table_name) and
\* if source_table != target_table: ...
ShapeCheck ==
    /\ pc = "shape_check"
    /\ LET target_table == Get(target_cache[1][schema_name], table_name)
       IN  IF DbTableInfo_ne(source_table, target_table)
           THEN /\ Differ("table_loop")
                /\ hist' = [hist EXCEPT ![Cur].lookup = @ + 1,
                                        ![Cur].outcome = "shape_mismatch"]
           ELSE /\ Goto("count_source")
                /\ hist' = [hist EXCEPT ![Cur].lookup = @ + 1]
                /\ UNCHANGED is_same
    /\ UNCHANGED <<others, failed_query, inputs, caches, loops, locals, schema_events, sink>>

\* record_count = source.record_count(schema_name, table_name): a live
\* count query, which answers the current count or fails
CountSource ==
    /\ pc = "count_source"
    /\ \/ \E c \in 0..MaxCount :
            /\ record_count' = c
            /\ Goto("count_target")
            /\ UNCHANGED failed_query
       \/ /\ QueryFails("source_count")
          /\ Raise("QueryError")
          /\ UNCHANGED record_count
    /\ hist' = [hist EXCEPT ![Cur].count_src = @ + 1]
    /\ UNCHANGED <<others, inputs, caches, is_same, loops, target_count, engine_exc,
                   compare_result, schema_events, sink>>

\* the count comparison taken as never unequal
CountsDiffer_never(count, other) == FALSE

\* record_count != target.record_count(schema_name, table_name)
CountsDiffer(count, other) == count # other

\* the emptiness test taken as never passed
IsEmpty_never(count) == FALSE

\* record_count == 0
IsEmpty(count) == count = 0

\* if record_count != target.record_count(...): ...; if record_count == 0: ...
CountTarget ==
    /\ pc = "count_target"
    /\ \/ \E c \in 0..MaxCount :
            /\ target_count' = c
            /\ UNCHANGED failed_query
            /\ IF CountsDiffer(record_count, c)
               THEN /\ Differ("table_loop")
                    /\ hist' = [hist EXCEPT ![Cur].count_tgt = @ + 1,
                                            ![Cur].outcome = "count_mismatch"]
               ELSE /\ UNCHANGED is_same
                    /\ IF IsEmpty(record_count)
                       THEN /\ Goto("table_loop")
                            /\ hist' = [hist EXCEPT ![Cur].count_tgt = @ + 1,
                                                    ![Cur].outcome = "empty_both"]
                       ELSE /\ Goto("diff")
                            /\ hist' = [hist EXCEPT ![Cur].count_tgt = @ + 1]
       \/ /\ QueryFails("target_count")
          /\ Raise("QueryError")
          /\ hist' = [hist EXCEPT ![Cur].count_tgt = @ + 1]
          /\ UNCHANGED <<is_same, target_count>>
    /\ UNCHANGED <<others, inputs, caches, loops, record_count, engine_exc,
                   compare_result, schema_events, sink>>

\* a handler that catches nothing
Caught_nothing(e) == FALSE

\* except ValueError: the classes the handler catches
Caught(e) == e = "ValueError"

\* diff_res = data_diff.diff_tables(...); try: compare_result = list(diff_res)
\* except ValueError: ...; continue
DiffTables ==
    /\ pc = "diff"
    /\ \/ \E r \in DiffResults :
            /\ compare_result' = r
            /\ engine_exc' = "none"
            /\ hist' = [hist EXCEPT ![Cur].diff = @ + 1]
            /\ Goto("handle_diff")
       \/ \E e \in EngineErrors :
            /\ engine_exc' = e
            /\ UNCHANGED compare_result
            /\ IF Caught(e)
               THEN /\ Goto("table_loop")
                    /\ hist' = [hist EXCEPT ![Cur].diff = @ + 1,
                                            ![Cur].outcome = "comparison_failed"]
               ELSE /\ Raise(e)
                    /\ hist' = [hist EXCEPT ![Cur].diff = @ + 1]
    /\ UNCHANGED <<others, failed_query, inputs, caches, is_same, loops, record_count, target_count,
                   schema_events, sink>>

\* the file opened with mode "w": the text replaces what the file held
Write_truncating(file, text) == <<text>>

\* with open(output_file, "a") as fp: fp.write(text)
Write(file, text) == Append(file, text)

\* the test taken as "more than one row"
HasDiff_many(rows) == Len(rows) > 1

\* if compare_result: a list is true iff it is not empty
HasDiff(rows) == rows # <<>>

\* if compare_result: ... (append the formatted diff to output_file) else: ...
HandleDiff ==
    /\ pc = "handle_diff"
    /\ IF HasDiff(compare_result)
       THEN /\ Differ("table_loop")
            /\ IF output_file
               THEN /\ sink' = Write(sink, format_diff(compare_result,
                                  source_table.primary_keys, source_table.columns))
                    /\ hist' = [hist EXCEPT ![Cur].report = @ + 1,
                                            ![Cur].outcome = "content_mismatch"]
               ELSE /\ UNCHANGED sink
                    /\ SetOutcome("content_mismatch")
       ELSE /\ Goto("table_loop")
            /\ SetOutcome("content_match")
            /\ UNCHANGED <<is_same, sink>>
    /\ UNCHANGED <<others, failed_query, inputs, caches, loops, locals, schema_events>>

Next ==
    \/ Start
    \/ NextSchema
    \/ ReturnVerdict
    \/ ExtraCheck
    \/ MissingCheck
    \/ NextTable
    \/ EndTables
    \/ PkCheck
    \/ ShapeCheck
    \/ CountSource
    \/ CountTarget
    \/ DiffTables
    \/ HandleDiff

Spec == Init /\ [][Next]_vars

\* no run of data_compare: nothing held, nothing started
RunIdle ==
    /\ source_db = [k \in TableKeys |-> <<>>]
    /\ target_db = [k \in TableKeys |-> <<>>]
    /\ schemas = {}
    /\ break_on_diff = FALSE
    /\ progress = FALSE
    /\ output_file = FALSE
    /\ source_cache = <<>>
    /\ target_cache = <<>>
    /\ pc = "idle"
    /\ is_same = TRUE
    /\ result = <<>>
    /\ error = "none"
    /\ todo_schemas = {}
    /\ schema_name = ""
    /\ todo_tables = <<>>
    /\ table_name = 0
    /\ record_count = -1
    /\ target_count = -1
    /\ engine_exc = "none"
    /\ compare_result = <<>>
    /\ failed_query = "none"
    /\ hist = [k \in TableKeys |-> NoHist]
    /\ schema_events = [s \in SchemaNames |-> {}]
    /\ sink = <<>>

\* ------------------------------------------- comparison of two descriptors
\* the descriptors DatabaseProxy.schemas may build
Descriptors ==
    {DbTableInfo(k[1], k[2], row.pk_keys, row.columns) :
        k \in TableKeys, row \in {RowNoPk, RowA, RowB, RowK}}

InitCompare ==
    /\ RunIdle
    /\ ProxiedIdle
    /\ ConfiguredIdle
    /\ lhs \in {<<d>> : d \in Descriptors}
    /\ rhs \in {<<>>} \cup {<<d>> : d \in Descriptors}
    /\ cmp = <<>>

\* lhs == rhs and lhs != rhs are evaluated and taken as conditions
Compare ==
    /\ lhs # <<>>
    /\ cmp = <<>>
    /\ cmp' = <<[eq |-> Truthy(DbTableInfo_eq(lhs[1], rhs)),
                 ne |-> DbTableInfo_ne(lhs[1], rhs)]>>
    /\ UNCHANGED <<run, lhs, rhs, proxied, configured>>

NextCompare == Compare

SpecCompare == InitCompare /\ [][NextCompare]_vars

\* ------------------------------------------------- one DatabaseProxy in use
\* calls made on the proxy
MaxCalls == 3

\* the tables that come and go while the proxy is in use
ProxyKeys == {<<"s1", 1>>, <<"s2", 1>>}

LiveDbs == {db \in [TableKeys -> {<<>>, <<RowA>>}] :
               \A k \in TableKeys \ ProxyKeys : db[k] = <<>>}
LiveCounts == [ProxyKeys -> 0..MaxCount]

InitProxy ==
    /\ RunIdle
    /\ ComparedIdle
    /\ ConfiguredIdle
    /\ live_db \in LiveDbs
    /\ live_counts \in LiveCounts
    /\ proxy_pc = "open"
    /\ proxy_cache = <<>>
    /\ proxy_queries = [metadata |-> 0, count |-> 0]
    /\ proxy_trace = [accesses |-> 0, counts |-> 0, maps |-> {}, last |-> NoCall]

CallsLeft == proxy_trace.accesses + proxy_trace.counts < MaxCalls

\* a property that computes its value at every access
IsCached_never(cache) == FALSE

\* functools.cached_property: the value is in the instance once computed
IsCached(cache) == cache # <<>>

\* proxy.schemas: the cached map, or the metadata query (which may fail, and
\* then caches nothing and raises) and the map built from its rows
AccessSchemas ==
    /\ proxy_pc = "open"
    /\ CallsLeft
    /\ IF IsCached(proxy_cache)
       THEN /\ proxy_trace' = [proxy_trace EXCEPT
                   !.accesses = @ + 1,
                   !.maps = @ \cup {proxy_cache[1]},
                   !.last = [op |-> "schemas", arg |-> <<>>, ret |-> proxy_cache]]
            /\ UNCHANGED <<proxy_pc, proxy_cache, proxy_queries>>
       ELSE /\ proxy_queries' = [proxy_queries EXCEPT !.metadata = @ + 1]
            /\ \/ LET m == schemas_of(tables_infos(live_db))
                  IN  /\ proxy_cache' = <<m>>
                      /\ proxy_trace' = [proxy_trace EXCEPT
                             !.accesses = @ + 1,
                             !.maps = @ \cup {m},
                             !.last = [op |-> "schemas", arg |-> <<>>,
                                       ret |-> <<m>>]]
                      /\ UNCHANGED proxy_pc
               \/ /\ proxy_pc' = "raised"
                  /\ proxy_trace' = [proxy_trace EXCEPT
                         !.accesses = @ + 1,
                         !.last = [op |-> "schemas", arg |-> <<>>, ret |-> <<>>]]
                  /\ UNCHANGED proxy_cache
    /\ UNCHANGED <<run, compared, configured, live_db, live_counts>>

\* proxy.record_count(k): select count(*) on a new connection; it fails on
\* a table the database does not hold, or with the connection
ProxyRecordCount(k) ==
    /\ proxy_pc = "open"
    /\ CallsLeft
    /\ proxy_queries' = [proxy_queries EXCEPT !.count = @ + 1]
    /\ \/ /\ live_db[k] # <<>>
          /\ proxy_trace' = [proxy_trace EXCEPT
                 !.counts = @ + 1,
                 !.last = [op |-> "record_count", arg |-> <<k>>,
                           ret |-> <<live_counts[k]>>]]
          /\ UNCHANGED proxy_pc
       \/ /\ proxy_pc' = "raised"
          /\ proxy_trace' = [proxy_trace EXCEPT
                 !.counts = @ + 1,
                 !.last = [op |-> "record_count", arg |-> <<k>>, ret |-> <<>>]]
    /\ UNCHANGED <<run, compared, configured, live_db, live_counts, proxy_cache>>

\* another session creates or drops a table, or changes the rows of one
DbChange ==
    /\ proxy_pc = "open"
    /\ live_db' \in LiveDbs
    /\ live_counts' \in LiveCounts
    /\ <<live_db', live_counts'>> # <<live_db, live_counts>>
    /\ UNCHANGED <<run, compared, configured, proxy_pc, proxy_cache,
                   proxy_queries, proxy_trace>>

NextProxy ==
    \/ AccessSchemas
    \/ \E k \in ProxyKeys : ProxyRecordCount(k)
    \/ DbChange

SpecProxy == InitProxy /\ [][NextProxy]_vars

\* ------------------------------------------------ calls of dotget and dotset
\* longest path
MaxLen == 3

KX == <<"x">>
KY == <<"y">>
KXY == <<"x", "_", "y">>

\* dicts of depth two over the keys "x", "y" and "x_y"
Dicts ==
    {PyDict(f) : f \in UNION {{g \in [D -> {PyInt(1), PyDict(<<>>),
                                            PyDict(KY :> PyInt(1))}] :
                                  \A k \in D \ {KX} : g[k] = PyInt(1)} :
                              D \in SUBSET {KX, KY, KXY}}}

PathChars == {"x", "y", ".", "_", ":"}
Paths == UNION {[1..n -> PathChars] : n \in 0..MaxLen}

InitUtility ==
    /\ RunIdle
    /\ ComparedIdle
    /\ ProxiedIdle
    /\ data \in Dicts
    /\ before = data
    /\ path \in Paths
    /\ value = PyInt(2)
    /\ ret = <<>>
    /\ raised = "none"
    /\ util_pc = "call"
    /\ environ = <<>>
    /\ env_prefix = <<>>
    /\ env_i = 0

\* dotget(data, path)
DotGet ==
    /\ util_pc = "call"
    /\ ret' = <<dotget(data, path, PyNone)>>
    /\ util_pc' = "got"
    /\ UNCHANGED <<run, compared, proxied, data, before, path, value, raised,
                   environ, env_prefix, env_i>>

\* dotset(data, path, value): data is changed in place and returned
DotSet ==
    /\ util_pc = "call"
    /\ LET r == dotset(data, path, value)
       IN  IF r.exc = "none"
           THEN /\ data' = r.obj
                /\ ret' = <<r.obj>>
                /\ util_pc' = "set"
                /\ UNCHANGED raised
           ELSE /\ raised' = r.exc
                /\ util_pc' = "raised"
                /\ UNCHANGED <<data, ret>>
    /\ UNCHANGED <<run, compared, proxied, before, path, value, environ,
                   env_prefix, env_i>>

\* dotget(data, path) after dotset(data, path, value)
DotGetAfterSet ==
    /\ util_pc = "set"
    /\ ret' = <<dotget(data, path, PyNone)>>
    /\ util_pc' = "set_got"
    /\ UNCHANGED <<run, compared, proxied, data, before, path, value, raised,
                   environ, env_prefix, env_i>>

NextUtility == DotGet \/ DotSet \/ DotGetAfterSet

SpecUtility == InitUtility /\ [][NextUtility]_vars

\* ---------------------------------------------------------------- Config.load
\* environment variables set at the call
MaxEnv == 2

EnvNames == {<<"P", "_", "X">>, <<"p", "_", "x">>, <<"P", "_", "X", "_", "Y">>,
             <<"p", "_", "x", ":", "y">>, <<"P", "_", "Y">>, <<"Q", "_", "X">>}
EnvValues == {"a", "b"}

Environs ==
    {e \in UNION {[1..n -> [key : EnvNames, value : EnvValues]] : n \in 0..MaxEnv} :
        \A i, j \in DOMAIN e : i # j => e[i].key # e[j].key}

\* None, "", " ", "p_" and "P_"
Prefixes == {<<>>, << <<>> >>, << <<" ">> >>, << <<"p", "_">> >>, << <<"P", "_">> >>}

InitConfig ==
    /\ RunIdle
    /\ ComparedIdle
    /\ ProxiedIdle
    /\ data = <<>>
    /\ before \in Dicts
    /\ path = <<>>
    /\ value = <<>>
    /\ ret = <<>>
    /\ raised = "none"
    /\ util_pc = "load"
    /\ environ \in Environs
    /\ env_prefix \in Prefixes
    /\ env_i = 0

\* Config.load up to the first test of load_environment: the Config is built
\* from the mapping read from the source, and returned at once when the
\* prefix is None or blank
ConfigLoad ==
    /\ util_pc = "load"
    /\ data' = before
    /\ IF strip(or_empty(env_prefix)) = <<>>
       THEN /\ ret' = <<before>>
            /\ util_pc' = "loaded"
            /\ UNCHANGED env_i
       ELSE /\ env_i' = 1
            /\ util_pc' = "env_loop"
            /\ UNCHANGED ret
    /\ UNCHANGED <<run, compared, proxied, before, path, value, raised,
                   environ, env_prefix>>

\* one turn of the loop of load_environment
EnvItem ==
    /\ util_pc = "env_loop"
    /\ env_i <= Len(environ)
    /\ LET key == environ[env_i].key
           prefix == upper(env_prefix[1])
       IN  IF startswith(lower(key), lower(prefix))
           THEN LET r == dotset(data, dotpath(key, prefix),
                                PyStr(environ[env_i].value))
                IN  IF r.exc = "none"
                    THEN /\ data' = r.obj
                         /\ env_i' = env_i + 1
                         /\ UNCHANGED <<raised, util_pc>>
                    ELSE /\ raised' = r.exc
                         /\ util_pc' = "raised"
                         /\ UNCHANGED <<data, env_i>>
           ELSE /\ env_i' = env_i + 1
                /\ UNCHANGED <<data, raised, util_pc>>
    /\ UNCHANGED <<run, compared, proxied, before, path, value, ret, environ,
                   env_prefix>>

\* the loop is exhausted: return self
LoadReturn ==
    /\ util_pc = "env_loop"
    /\ env_i > Len(environ)
    /\ ret' = <<data>>
    /\ util_pc' = "loaded"
    /\ UNCHANGED <<run, compared, proxied, data, before, path, value, raised,
                   environ, env_prefix, env_i>>

NextConfig == ConfigLoad \/ EnvItem \/ LoadReturn

SpecConfig == InitConfig /\ [][NextConfig]_vars

\* ------------------------------------------------ vocabulary of the properties
\* These speak of what the databases hold (source_db, target_db), of the
\* answers they gave and of what the run did (hist, schema_events), not of
\* the run's own judgement.

SourceHas(k) == source_db[k] # <<>>
TargetHas(k) == target_db[k] # <<>>

\* the source table has a primary key
SourceHasKey(k) == SourceHas(k) /\ source_db[k][1].pk_keys # <<>>

\* both sides hold the table with the same key sequence and column sequence
SameShape(k) ==
    /\ SourceHas(k)
    /\ TargetHas(k)
    /\ source_db[k][1].pk_keys = target_db[k][1].pk_keys
    /\ source_db[k][1].columns = target_db[k][1].columns

\* a keyed source table whose target descriptor is absent or different
ShapeDiffers(k) == SourceHasKey(k) /\ ~SameShape(k)

SourceSchemaNames == {k[1] : k \in {kk \in TableKeys : SourceHas(kk)}}
TargetSchemaNames == {k[1] : k \in {kk \in TableKeys : TargetHas(kk)}}

\* the schema passes the allow-list
Allowed(s) == schemas = {} \/ s \in schemas

\* the target holds a table of schema s that the source does not
ExtraTables(s) == \E k \in TableKeys : k[1] = s /\ TargetHas(k) /\ ~SourceHas(k)

\* the run is past its schema-level checks of s against the target
SchemaChecked(s) ==
    /\ "entered" \in schema_events[s]
    /\ target_cache # <<>>
    /\ ~(pc = "extra_check" /\ schema_name = s)

\* data_compare has returned False
Stopped == pc = "done" /\ result = <<FALSE>>

NoCountNoDiff(k) ==
    hist[k].count_src = 0 /\ hist[k].count_tgt = 0 /\ hist[k].diff = 0

\* ------------------------------------------------------------------ claims

\* C1: a keyed source table whose target descriptor is absent or differs in
\* key sequence or column sequence marks the verdict false, gets no
\* record_count query and no row-diff, and ends the run with False under
\* break_on_diff (else the run goes on with the next table).
C1_ShapeMismatchMarksVerdict ==
    \A k \in TableKeys :
        (ShapeDiffers(k) /\ hist[k].lookup > 0) =>
            /\ ~is_same
            /\ NoCountNoDiff(k)
            /\ hist[k].outcome = "shape_mismatch"
            /\ break_on_diff => Stopped

\* C2: a source schema that passes the allow-list and is absent from the
\* target does not make the run raise: the verdict is marked false, no table
\* of the schema is evaluated, and under break_on_diff the run returns False.
C2_MissingSchemaDoesNotRaise ==
    \A s \in SchemaNames :
        (SchemaChecked(s) /\ s \notin TargetSchemaNames) =>
            /\ error # "KeyError"
            /\ ~is_same
            /\ \A k \in TableKeys : k[1] = s => hist[k].visits = 0
            /\ break_on_diff => Stopped

\* outcomes as the run itself classified the tables and schemas
Reached(k) == hist[k].visits > 0
SchemaFailures(s) == schema_events[s] \cap {"missing_in_target", "extra_tables"}

\* C3 as stated: the returned boolean is true iff every reached table ended
\* as content_match or empty_both and no schema or table is missing.
C3_VerdictIffAllMatchOrEmpty ==
    pc = "done" =>
        (result = <<TRUE>> <=>
            /\ \A k \in TableKeys :
                  Reached(k) => hist[k].outcome \in {"content_match", "empty_both"}
            /\ \A s \in SchemaNames : SchemaFailures(s) = {})

\* C3 amended: the returned boolean is true iff no reached table ended as
\* shape_mismatch, count_mismatch or content_mismatch and no processed schema
\* was found missing in the target or with extra target tables; tables ending
\* as no_primary_key_skipped or comparison_failed leave it true.
C3_VerdictIffNoDisqualifyingOutcome ==
    pc = "done" =>
        (result = <<TRUE>> <=>
            /\ \A k \in TableKeys :
                  hist[k].outcome \notin
                      {"shape_mismatch", "count_mismatch", "content_mismatch"}
            /\ \A s \in SchemaNames : SchemaFailures(s) = {})

\* a run that returned True although one table was skipped for want of a
\* key and the comparison of another failed
C3_Witness ==
    /\ pc = "done"
    /\ result = <<TRUE>>
    /\ \E k \in TableKeys : hist[k].outcome = "no_primary_key_skipped"
    /\ \E k \in TableKeys : hist[k].outcome = "comparison_failed"

\* C4: under break_on_diff the run returns False as soon as the first
\* disqualifying difference (missing schema, extra target tables, shape
\* mismatch, count mismatch, content mismatch) has been met; nothing is
\* queried, diffed or reported after it.
C4_BreakOnDiffStopsAtFirstDifference ==
    break_on_diff =>
        /\ \A s \in SchemaNames :
              (SchemaChecked(s) /\ (s \notin TargetSchemaNames \/ ExtraTables(s)))
                  => Stopped
        /\ \A k \in TableKeys :
              (hist[k].lookup > 0 /\ ShapeDiffers(k)) => Stopped
        /\ \A k \in TableKeys :
              hist[k].outcome \in {"count_mismatch", "content_mismatch"}
                  => Stopped

\* a table that is to be visited: its schema passes the allow-list and
\* exists in the target
Eligible(k) == SourceHas(k) /\ Allowed(k[1]) /\ k[1] \in TargetSchemaNames

\* C5: without break_on_diff the run is exhaustive whatever differences it
\* meets: unless a query or the engine fails, it ends by returning the
\* verdict, after visiting every eligible table exactly once.
C5_ExhaustiveWithoutBreak ==
    (/\ ~break_on_diff
     /\ progress
     /\ pc \in {"done", "raised"}
     /\ error \notin {"QueryError", "RuntimeError"}) =>
        /\ pc = "done"
        /\ \A k \in TableKeys : Eligible(k) => hist[k].visits = 1

\* C6 as stated: whatever failure the row-diff engine raises (value or
\* runtime), the table ends as comparison_failed, nothing propagates, the
\* verdict is unchanged and the run goes on with the next table.
C6_EngineFailureIsLocal ==
    [][(pc = "diff" /\ engine_exc' # "none") =>
          /\ pc' = "table_loop"
          /\ hist'[Cur].outcome = "comparison_failed"
          /\ is_same' = is_same
          /\ error' = "none"
          /\ result' = <<>>]_vars

\* C6 amended: when the row-diff engine raises a ValueError, the table ends
\* as comparison_failed, nothing propagates, the verdict is unchanged and the
\* run goes on with the next table, also under break_on_diff.
C6_ValueErrorIsLocal ==
    [][(pc = "diff" /\ engine_exc' = "ValueError") =>
          /\ pc' = "table_loop"
          /\ hist'[Cur].outcome = "comparison_failed"
          /\ is_same' = is_same
          /\ error' = "none"
          /\ result' = <<>>]_vars

\* under break_on_diff the comparison of the first table of s1 failed, the
\* verdict is still true and the second table has been visited
C6_Witness ==
    /\ break_on_diff
    /\ is_same
    /\ hist[<<"s1", 1>>].outcome = "comparison_failed"
    /\ hist[<<"s1", 2>>].visits = 1

\* C7: a source table without primary key is skipped: no target lookup, no
\* record_count, no row-diff, no report for it, and the step that skips it
\* leaves the verdict as it was, whatever the target holds.
C7_NoKeyTableSkipped ==
    /\ [](\A k \in TableKeys :
            (SourceHas(k) /\ ~SourceHasKey(k)) =>
                /\ hist[k].lookup = 0
                /\ NoCountNoDiff(k)
                /\ hist[k].report = 0
                /\ hist[k].outcome \in {"none", "no_primary_key_skipped"})
    /\ [][(pc = "pk_check" /\ ~SourceHasKey(Cur)) =>
            (is_same' = is_same /\ pc' = "table_loop")]_vars

\* a keyless source table was skipped although the target holds a keyed
\* table of that name, and the run returned True
C7_Witness ==
    /\ pc = "done"
    /\ result = <<TRUE>>
    /\ \E k \in TableKeys :
          /\ hist[k].outcome = "no_primary_key_skipped"
          /\ TargetHas(k)

\* the target has just answered its count for the table the run is at
TargetAnswers == pc = "count_target" /\ pc' # "raised"

\* C8: when the two counts of a table of matching descriptors differ, the
\* verdict is marked false and the table is left (or the run returns);
\* a table that ended so is never diffed or reported and each of its sides
\* was counted exactly once.
C8_CountMismatchSkipsDiff ==
    /\ [][(TargetAnswers /\ SameShape(Cur) /\ target_count' # record_count) =>
            /\ ~is_same'
            /\ hist'[Cur].outcome = "count_mismatch"
            /\ pc' \in {"table_loop", "done"}]_vars
    /\ [](\A k \in TableKeys :
            hist[k].outcome = "count_mismatch" =>
                /\ ~is_same
                /\ hist[k].diff = 0
                /\ hist[k].report = 0
                /\ hist[k].count_src = 1
                /\ hist[k].count_tgt = 1)

\* a run without break_on_diff that met a count mismatch on a table of
\* matching descriptors and went on to its end
C8_Witness ==
    /\ pc = "done"
    /\ ~break_on_diff
    /\ \E k \in TableKeys :
          /\ SameShape(k)
          /\ hist[k].outcome = "count_mismatch"
          /\ hist[k].count_src = 1
          /\ hist[k].count_tgt = 1

\* C9: when both sides of a table of matching descriptors answer count 0,
\* the verdict is left as it was and the run goes on with the next table;
\* a table that ended so (empty_both) is never diffed or reported.
C9_EmptyBothSkipsDiff ==
    /\ [][(/\ TargetAnswers
           /\ SameShape(Cur)
           /\ record_count = 0
           /\ target_count' = 0) =>
            /\ is_same' = is_same
            /\ hist'[Cur].outcome = "empty_both"
            /\ pc' = "table_loop"]_vars
    /\ [](\A k \in TableKeys :
            hist[k].outcome = "empty_both" =>
                (hist[k].diff = 0 /\ hist[k].report = 0))

\* the second table of s1, of matching descriptors, was found empty on both
\* sides while the verdict was still true, and the run returned True
C9_Witness ==
    /\ pc = "done"
    /\ result = <<TRUE>>
    /\ Cur = <<"s1", 2>>
    /\ SameShape(Cur)
    /\ record_count = 0
    /\ target_count = 0
    /\ hist[Cur].outcome = "empty_both"

\* both sides answered the same count, greater than zero
EqualNonZero == record_count = target_count /\ record_count > 0

\* C10: for a table of identical descriptors and identical counts greater
\* than zero, the outcome is content_match iff the engine returned no row
\* (and then the verdict is left as it was); a returned row gives
\* content_mismatch and marks the verdict false; a table gets neither
\* outcome while the engine has not returned.
C10_ContentMatchIffEmptyDiff ==
    /\ [][(pc = "handle_diff" /\ SameShape(Cur) /\ EqualNonZero) =>
            /\ compare_result = <<>> <=> hist'[Cur].outcome = "content_match"
            /\ compare_result = <<>> => is_same' = is_same
            /\ compare_result # <<>> =>
                  (hist'[Cur].outcome = "content_mismatch" /\ ~is_same')]_vars
    /\ [][pc # "handle_diff" =>
            \A k \in TableKeys :
                hist'[k].outcome \in {"content_match", "content_mismatch"}
                    => hist'[k].outcome = hist[k].outcome]_vars

\* a run over two tables of identical descriptors: the first ended as
\* content_match, the second, of equal non-zero counts, as content_mismatch
C10_Witness ==
    /\ pc = "done"
    /\ SameShape(<<"s1", 1>>)
    /\ hist[<<"s1", 1>>].outcome = "content_match"
    /\ Cur = <<"s1", 2>>
    /\ SameShape(Cur)
    /\ EqualNonZero
    /\ compare_result # <<>>
    /\ hist[Cur].outcome = "content_mismatch"

\* the source tables of schema s
SourceTablesOf(s) == {k \in TableKeys : k[1] = s /\ SourceHas(k)}

\* C11: with an allow-list given, a source schema that is not in the list is
\* skipped entirely: none of its tables is visited, looked up, counted or
\* diffed, the step that skips it consults no database and leaves verdict,
\* result and report alone, and nothing is ever found out about the schema
\* (neither missing in the target nor extra tables).
C11_UnlistedSchemaSkipped ==
    /\ [](\A s \in SchemaNames : ~Allowed(s) =>
            /\ schema_events[s] \subseteq {"skipped"}
            /\ \A k \in TableKeys : k[1] = s => hist[k] = NoHist)
    /\ [][\A s \in SchemaNames :
            (~Allowed(s) /\ schema_events'[s] # schema_events[s]) =>
                /\ pc' = "schema_loop"
                /\ UNCHANGED <<is_same, result, error, caches, failed_query,
                               hist, sink>>]_vars

\* a run that returned True although the skipped schema "s1" is held by the
\* source and missing in the target
C11_Witness ==
    /\ pc = "done"
    /\ result = <<TRUE>>
    /\ schemas = {"s2"}
    /\ "skipped" \in schema_events["s1"]
    /\ "s1" \in SourceSchemaNames
    /\ "s1" \notin TargetSchemaNames
    /\ "entered" \in schema_events["s2"]

\* schema name, table name, key sequence, column sequence and derived
\* timestamp column of two descriptors all match
FieldsMatch(a, b) ==
    /\ a.schema_name = b.schema_name
    /\ a.table_name = b.table_name
    /\ a.primary_keys = b.primary_keys
    /\ a.columns = b.columns
    /\ timestamp(a) = timestamp(b)

\* C12: == of two descriptors is true iff schema name, table name, key
\* sequence, column sequence and timestamp column all match, != is true iff
\* they do not, and a descriptor compared with None is unequal.
C12_EqualityIffFieldsMatch ==
    cmp # <<>> =>
        IF rhs = <<>>
        THEN ~cmp[1].eq /\ cmp[1].ne
        ELSE /\ cmp[1].eq <=> FieldsMatch(lhs[1], rhs[1])
             /\ cmp[1].ne <=> ~FieldsMatch(lhs[1], rhs[1])

\* the step is a call of the kind op that returned
Returned(op) ==
    /\ proxy_trace' # proxy_trace
    /\ proxy_trace'.last.op = op
    /\ proxy_trace'.last.ret # <<>>

C14_QueryFailurePropagates ==
    /\ [](failed_query # "none" =>
            /\ pc = "raised"
            /\ error = "QueryError"
            /\ result = <<>>)
    /\ [](\A k \in TableKeys : hist[k].count_src <= 1 /\ hist[k].count_tgt <= 1)
    /\ [][failed_query = "none"]_vars

\* the count query of the target failed while a source table of a listed
\* schema was still to be visited
C14_Witness ==
    /\ failed_query = "target_count"
    /\ pc = "raised"
    /\ \E k \in TableKeys :
          SourceHas(k) /\ Allowed(k[1]) /\ hist[k].visits = 0

\* C15 as stated: whenever a processed schema has a target table that the
\* source lacks, the verdict is false and the check does not short-circuit:
\* a run that returns has iterated over the schema's source tables.
C15_ExtraTablesNeverShortCircuit ==
    \A s \in SchemaNames :
        (SchemaChecked(s) /\ ExtraTables(s)) =>
            /\ ~is_same
            /\ pc = "done" => \A k \in SourceTablesOf(s) : hist[k].visits > 0

\* C15 amended: whenever a processed schema has a target table that the
\* source lacks, the verdict is false; without break_on_diff the run goes on
\* to the missing-tables check and then enters the loop over all source
\* tables of the schema, and with break_on_diff it returns False at once,
\* none of the schema's tables being visited.
C15_ExtraTablesShortCircuitOnlyUnderBreak ==
    /\ [](\A s \in SchemaNames :
            (SchemaChecked(s) /\ ExtraTables(s)) =>
                /\ ~is_same
                /\ break_on_diff =>
                      /\ Stopped
                      /\ \A k \in SourceTablesOf(s) : hist[k].visits = 0
                /\ (~break_on_diff /\ pc = "done") =>
                      \A k \in SourceTablesOf(s) : hist[k].visits = 1)
    /\ [][(pc = "extra_check" /\ ExtraTables(schema_name) /\ pc' # "raised") =>
            pc' = IF break_on_diff THEN "done" ELSE "missing_check"]_vars
    /\ [][(pc = "missing_check" /\ ExtraTables(schema_name)) =>
            /\ pc' = "table_loop"
            /\ {todo_tables'[i] : i \in DOMAIN todo_tables'} =
                   {k[2] : k \in SourceTablesOf(schema_name)}
            /\ todo_tables' # <<>>]_vars

\* a run without break_on_diff that found extra target tables in a schema,
\* visited a source table of that schema and returned False
C15_Witness ==
    /\ ~break_on_diff
    /\ pc = "done"
    /\ result = <<FALSE>>
    /\ \E s \in SchemaNames :
          /\ ExtraTables(s)
          /\ "extra_tables" \in schema_events[s]
          /\ \E k \in SourceTablesOf(s) : hist[k].visits = 1

\* number of blocks the run has written for the tables in S
RECURSIVE Reports(_)
Reports(S) ==
    IF S = {} THEN 0
    ELSE LET k == CHOOSE x \in S : TRUE
         IN  hist[k].report + Reports(S \ {k})

\* C16: with an output file configured, a table that ends as
\* content_mismatch gets exactly one block appended to the file, built from
\* the differing rows with the primary keys and columns of the source
\* descriptor; no other step changes the file, tables with another outcome
\* (and all tables when no file is configured) get no block, and what the
\* file held before stays in front.
C16_ReportAppendsOneBlockPerMismatch ==
    /\ [](/\ sink[1] = PriorBlock
          /\ Len(sink) = 1 + Reports(TableKeys)
          /\ \A k \in TableKeys :
                hist[k].report =
                    IF output_file /\ hist[k].outcome = "content_mismatch"
                    THEN 1 ELSE 0)
    /\ [][sink' # sink =>
            /\ output_file
            /\ hist[Cur].outcome # "content_mismatch"
            /\ hist'[Cur].outcome = "content_mismatch"
            /\ sink' = Append(sink,
                   format_diff(compare_result, source_db[Cur][1].pk_keys,
                               source_db[Cur][1].columns))]_vars
    /\ [][(output_file /\ \E k \in TableKeys :
                hist'[k].outcome = "content_mismatch" /\
                hist[k].outcome # "content_mismatch") =>
            sink' # sink]_vars

\* a finished run with an output file in which a table ended as
\* content_mismatch and another table with a different outcome
C16_Witness ==
    /\ output_file
    /\ pc = "done"
    /\ Len(sink) = 2
    /\ sink[2].rows # <<>>
    /\ \E k \in TableKeys : hist[k].outcome = "content_mismatch"
    /\ \E k \in TableKeys :
          hist[k].outcome \in {"content_match", "count_mismatch", "empty_both"}

\* the path holds none of the characters that dotexpand takes apart
Plain(p) == \A i \in DOMAIN p : p[i] \notin {":", ",", " "}

\* C17: dotget treats the "."-joined and the "_"-joined spelling of a path
\* as synonyms: a lookup returns what the lookup of the path respelled with
\* "." for every "_", and with "_" for every ".", returns.
C17_DotAndUnderscoreSynonyms ==
    (util_pc = "got" /\ Plain(path)) =>
        /\ ret = <<dotget(data, replace(path, "_", <<".">>), PyNone)>>
        /\ ret = <<dotget(data, replace(path, ".", <<"_">>), PyNone)>>

\* the keys a path names, "." and "_" both read as separators
KeysOf(p) == split(replace(p, "_", <<".">>), ".")

\* dict a is dict b but for what lies at attrs and the dicts leading there
RECURSIVE SameOffPath(_, _, _)
SameOffPath(b, a, attrs) ==
    /\ a.type = "dict"
    /\ DOMAIN a.items = DOMAIN b.items \cup {Head(attrs)}
    /\ \A k \in DOMAIN b.items \ {Head(attrs)} : a.items[k] = b.items[k]
    /\ (/\ Len(attrs) > 1
        /\ Head(attrs) \in DOMAIN b.items
        /\ b.items[Head(attrs)].type = "dict") =>
            SameOffPath(b.items[Head(attrs)], a.items[Head(attrs)], Tail(attrs))

\* C18: dotset(data, path, value) stores value at the nested location the
\* path names, creating missing dicts on the way, leaves every key off the
\* path as it was and returns data; dotget(data, path) then returns value.
C18_DotsetStoresAndDotgetReturns ==
    (util_pc \in {"set", "set_got"} /\ Plain(path) /\ path # <<>>) =>
        /\ walk(data, KeysOf(path)) = value
        /\ SameOffPath(before, data, KeysOf(path))
        /\ util_pc = "set" => ret = <<data>>
        /\ util_pc = "set_got" => ret = <<value>>

\* the prefix is None, empty or blank
Blank(prefix) == prefix = <<>> \/ \A i \in DOMAIN prefix[1] : prefix[1][i] = " "

\* name starts with p, case ignored
StartsWithNoCase(name, p) ==
    /\ Len(p) <= Len(name)
    /\ \A i \in 1..Len(p) : lower_char(name[i]) = lower_char(p[i])

\* the environment variable at position i bears the prefix
Prefixed(i) == ~Blank(env_prefix) /\ StartsWithNoCase(environ[i].key, env_prefix[1])

\* the keys of the entry that the variable at position i names
EntryOf(i) ==
    KeysOf(replace(lower(SubSeq(environ[i].key, Len(env_prefix[1]) + 1,
                                Len(environ[i].key))), ":", <<".">>))

\* one of the two key sequences leads to or through the other's entry
Related(ks, ls) ==
    \A n \in 1..(IF Len(ks) < Len(ls) THEN Len(ks) ELSE Len(ls)) : ks[n] = ls[n]

\* key sequences of entries a configuration of the model may hold
KeySeqs == UNION {[1..n -> {KX, KY, KXY}] : n \in 1..2}

\* the entry at ks lies off the entries of all prefixed variables
Untouched(ks) ==
    \A i \in DOMAIN environ : Prefixed(i) => ~Related(ks, EntryOf(i))

RECURSIVE Blocked(_, _)
Blocked(d, attrs) ==
    /\ Len(attrs) > 1
    /\ Head(attrs) \in DOMAIN d.items
    /\ \/ d.items[Head(attrs)].type # "dict"
       \/ Blocked(d.items[Head(attrs)], Tail(attrs))

C20_OutcomeIndependentOfPresentation ==
    [][(pc = "table_loop" /\ todo_tables # <<>>) =>
          (pc' = "pk_check" /\ error' = error)]_vars
====
